---- MODULE Spec2Model ----
(***************************************************************************)
(* Model of github_roaster.py: the two GitHub fetchers, the CrewAI flow    *)
(* GitHubRoasterFlow (two @start methods joined by an and_ listener that   *)
(* runs a two-task crew) and the part of main() that runs the flow.        *)
(***************************************************************************)
EXTENDS Integers, Sequences, FiniteSets, TLC

(***************************************************************************)
(* State of one run: main() creates a GitHubRoasterFlow and calls          *)
(* flow.kickoff(inputs={"username": username}).                            *)
(***************************************************************************)
VARIABLES
    state,           \* self.state of the flow; Missing marks a key not set
    up_user,         \* what GET /users/{username} gives for this key
    up_repos,        \* what GET /users/{username}/repos gives for this key
    pc,              \* position of each flow method
    retval,          \* value a start method is about to return
    completed,       \* flow methods that have returned
    method_outputs,  \* outputs of the methods, in the order they returned
    join_saw,        \* keys generate_roast found in self.state at line 160
    crew_pc,         \* position of crew.kickoff
    crew_inputs,     \* inputs given to crew.kickoff
    task_outputs,    \* outputs of the crew's tasks so far
    gen_log,         \* calls and returns of the generation capability
    kickoffs,        \* number of calls of crew.kickoff
    result,          \* what flow.kickoff returned to main
    run_state,       \* "Running", "Completed" or "Failed"
    escaped,         \* the run ended with an exception nobody caught
    shown,           \* what main hands to the page
    fx_kind,         \* fetcher under test: "user" or "repos"
    fx_resp,         \* upstream state the fetcher under test sees
    fx_results       \* results of its successive calls

upstreamVars == <<up_user, up_repos>>

taskVars == <<pc, retval, completed, method_outputs, join_saw>>

crewVars == <<crew_pc, crew_inputs, task_outputs, gen_log, kickoffs>>

callerVars == <<result, run_state, escaped, shown>>

flowVars == <<state, upstreamVars, taskVars, crewVars, callerVars>>

fetchVars == <<fx_kind, fx_resp, fx_results>>

vars == <<flowVars, fetchVars>>

(***************************************************************************)
(* Python / JSON values.  Every value is a tagged record, so that values   *)
(* of different Python types can be compared.  Missing stands for "the key *)
(* is not in the dict"; it is never a value the program computes.          *)
(***************************************************************************)
Missing == [k |-> "missing"]

None == [k |-> "null"]

Str(s) == [k |-> "str", s |-> s]

IntV(n) == [k |-> "int", n |-> n]

Bool(b) == [k |-> "bool", b |-> b]

List(v) == [k |-> "list", v |-> v]

Tuple(v) == [k |-> "tuple", v |-> v]

\* Python truth value of a value (used by `not x` and `x or y`); a value
\* without a tag is a dict, which is true when it has a key.
Truthy(v) ==
    IF "k" \notin DOMAIN v THEN DOMAIN v # {}
    ELSE CASE v.k = "null" -> FALSE
           [] v.k = "str" -> v.s # ""
           [] v.k = "int" -> v.n # 0
           [] v.k = "bool" -> v.b
           [] v.k = "list" -> v.v # <<>>
           [] v.k = "tuple" -> v.v # <<>>
           [] OTHER -> TRUE

\* dict.get(key, default): the default only replaces a key that is not there.
Get(d, key, default) ==
    IF key \in DOMAIN d /\ d[key] # Missing THEN d[key] ELSE default

\* Variant: only None is replaced (`x if x is not None else y`).
Or_NoneOnly(x, y) == IF x = None THEN y ELSE x

\* Python `x or y`.
Or(x, y) == IF Truthy(x) THEN x ELSE y

(***************************************************************************)
(* HTTP responses of the lookup service.  requests.get either raises       *)
(* (timeout after 10 s, connection error) or returns a response with a     *)
(* status code and a JSON body.                                            *)
(***************************************************************************)
HTTP_OK == 200

\* An exception that left a call, in place of its value.
Raised(exception) == [k |-> "raised", exception |-> exception]

IsRaised(v) == "k" \in DOMAIN v /\ v.k = "raised"

RequestException == Raised("RequestException")

\* The body the lookup service sends with an error status.
ErrorBody == [message |-> Str("Not Found")]

Response(status, body) == [k |-> "response", status_code |-> status, json |-> body]

\* Variant: every 2xx status is accepted.
NotOk_2xx(response) == response.status_code \notin 200..299

\* The test of lines 56 and 81: the response is taken as a failure.
NotOk(response) == response.status_code # HTTP_OK

\* Variant: answers from the second call on are refused (a call budget).
get_github_user_info_budget(response) ==
    IF fx_results # <<>> THEN None
    ELSE IF IsRaised(response) THEN response
    ELSE IF NotOk(response) THEN None
    ELSE LET data == response.json IN
         [username     |-> Get(data, "login", None),
          name         |-> Or(Get(data, "name", None), Str("Not provided")),
          bio          |-> Or(Get(data, "bio", None), Str("No bio provided")),
          followers    |-> Get(data, "followers", IntV(0)),
          following    |-> Get(data, "following", IntV(0)),
          public_repos |-> Get(data, "public_repos", IntV(0)),
          location     |-> Or(Get(data, "location", None), Str("Not provided")),
          company      |-> Or(Get(data, "company", None), Str("Not provided")),
          blog         |-> Or(Get(data, "blog", None), Str("Not provided")),
          created_at   |-> Get(data, "created_at", None),
          avatar_url   |-> Get(data, "avatar_url", None)]

\* get_github_user_info(username), as a function of what requests.get gives.
get_github_user_info(response) ==
    IF IsRaised(response) THEN response
    ELSE IF NotOk(response) THEN None
    ELSE LET data == response.json IN
         [username     |-> Get(data, "login", None),
          name         |-> Or(Get(data, "name", None), Str("Not provided")),
          bio          |-> Or(Get(data, "bio", None), Str("No bio provided")),
          followers    |-> Get(data, "followers", IntV(0)),
          following    |-> Get(data, "following", IntV(0)),
          public_repos |-> Get(data, "public_repos", IntV(0)),
          location     |-> Or(Get(data, "location", None), Str("Not provided")),
          company      |-> Or(Get(data, "company", None), Str("Not provided")),
          blog         |-> Or(Get(data, "blog", None), Str("Not provided")),
          created_at   |-> Get(data, "created_at", None),
          avatar_url   |-> Get(data, "avatar_url", None)]

\* One element of the list comprehension of get_github_repos.
RepoEntry(repo) ==
    [name        |-> Get(repo, "name", None),
     description |-> Or(Get(repo, "description", None), Str("No description provided")),
     language    |-> Or(Get(repo, "language", None), Str("Not specified")),
     stars       |-> Get(repo, "stargazers_count", IntV(0)),
     forks       |-> Get(repo, "forks_count", IntV(0)),
     issues      |-> Get(repo, "open_issues_count", IntV(0)),
     created_at  |-> Get(repo, "created_at", None),
     updated_at  |-> Get(repo, "updated_at", None),
     topics      |-> Get(repo, "topics", List(<<>>)),
     is_fork     |-> Get(repo, "fork", Bool(FALSE))]

\* get_github_repos(username), as a function of what requests.get gives.
\* (A body that is not a list of objects has no repo.get: AttributeError.)
get_github_repos(response) ==
    IF IsRaised(response) THEN response
    ELSE IF NotOk(response) THEN None
    ELSE LET repos == response.json IN
         IF "k" \in DOMAIN repos /\ repos.k = "list"
         THEN List([i \in 1..Len(repos.v) |-> RepoEntry(repos.v[i])])
         ELSE Raised("AttributeError")

(***************************************************************************)
(* Text rendering of start_repo_info (lines 134-149).                      *)
(***************************************************************************)
\* Python str() of a list of strings, as an f-string prints it.
RECURSIVE ReprItems(_)
ReprItems(xs) ==
    IF xs = <<>> THEN ""
    ELSE IF Len(xs) = 1 THEN "'" \o xs[1].s \o "'"
    ELSE "'" \o xs[1].s \o "', " \o ReprItems(Tail(xs))

\* What an f-string puts for {value}.
Format(v) ==
    CASE v.k = "null" -> "None"
      [] v.k = "str" -> v.s
      [] v.k = "int" -> ToString(v.n)
      [] v.k = "bool" -> (IF v.b THEN "True" ELSE "False")
      [] v.k = "list" -> "[" \o ReprItems(v.v) \o "]"

Indent == "                "

\* The f-string of lines 136-146 for one repository (no line for `issues`).
RepoText(repo) ==
    "\n" \o Indent \o "- Name: " \o Format(repo.name)
    \o "\n" \o Indent \o "- Description: " \o Format(repo.description)
    \o "\n" \o Indent \o "- Language: " \o Format(repo.language)
    \o "\n" \o Indent \o "- Stars: " \o Format(repo.stars)
    \o "\n" \o Indent \o "- Forks: " \o Format(repo.forks)
    \o "\n" \o Indent \o "- Created At: " \o Format(repo.created_at)
    \o "\n" \o Indent \o "- Updated At: " \o Format(repo.updated_at)
    \o "\n" \o Indent \o "- Topics: " \o Format(repo.topics)
    \o "\n" \o Indent \o "- Is Fork: " \o Format(repo.is_fork)
    \o "\n" \o Indent

\* "\n\n".join(...) over the list of repositories.
RECURSIVE JoinRepos(_)
JoinRepos(repos) ==
    IF repos = <<>> THEN ""
    ELSE IF Len(repos) = 1 THEN RepoText(repos[1])
    ELSE RepoText(repos[1]) \o "\n\n" \o JoinRepos(Tail(repos))

(***************************************************************************)
(* Bounds and the inputs of a run.                                         *)
(***************************************************************************)
\* Longest list of repositories the lookup service answers with.
MaxRepos == 2

\* Number of successive calls of one fetcher against one upstream state.
MaxCalls == 2

Usernames == {"octocat", "ghost-user-404"}

\* Statuses other than 200 that the lookup service answers with.
OtherStatuses == {201, 204, 403, 404, 500}

\* A profile as the lookup service sends it (keys of the GitHub API).
UserBody(login, name, bio, followers, location, company, blog) ==
    [login |-> login, name |-> name, bio |-> bio, followers |-> followers,
     following |-> IntV(9), public_repos |-> IntV(5), location |-> location,
     company |-> company, blog |-> blog,
     created_at |-> Str("2011-01-25T18:44:36Z"),
     avatar_url |-> Str("https://avatars.githubusercontent.com/u/583231")]

\* A repository as the lookup service sends it.
RepoBody(name, description, language, stars, topics, fork) ==
    [name |-> name, description |-> description, language |-> language,
     stargazers_count |-> stars, forks_count |-> IntV(3),
     open_issues_count |-> Missing,
     created_at |-> Str("2011-01-27T19:30:43Z"),
     updated_at |-> Str("2024-05-01T08:00:00Z"),
     topics |-> topics, fork |-> fork]

\* All lists of at most n elements of S.
ListsOf(S, n) == UNION {[1..len -> S] : len \in 0..n}

\* The lookup service's answers in the runs of the flow.
FlowUserBodies ==
    {UserBody(Str("octocat"), Str("The Octocat"), None, IntV(100),
              Str("San Francisco"), Str("@github"), Str("")),
     UserBody(Str("ghost"), Missing, Str("boo"), IntV(0), None, None, None)}

FlowRepoBodies ==
    {RepoBody(Str("Spoon-Knife"), None, Str("HTML"), IntV(12),
              List(<<Str("demo"), Str("fork-me")>>), Bool(FALSE)),
     RepoBody(Str("linguist"), Str("Language savant"), None, Missing,
              Missing, Bool(TRUE))}

FlowUserResponses ==
    {RequestException, Response(404, ErrorBody), Response(204, ErrorBody)}
    \cup {Response(HTTP_OK, body) : body \in FlowUserBodies}

FlowRepoResponses ==
    {RequestException, Response(404, ErrorBody), Response(204, ErrorBody)}
    \cup {Response(HTTP_OK, List(body)) : body \in ListsOf(FlowRepoBodies, MaxRepos)}

\* Texts the generation capability can answer with (opaque).
AnalysisTexts == {"insights-1", "insights-2"}

RoastTexts == {"roast-1", "roast-2"}

(***************************************************************************)
(* The flow: its methods and the state flow.kickoff starts from.           *)
(***************************************************************************)
StartMethods == {"start_user_info", "start_repo_info"}

Methods == StartMethods \cup {"generate_roast"}

\* The flow right after flow.kickoff copied its inputs into self.state.
FlowInit(username, user_response, repos_response) ==
    /\ state = [username |-> Str(username), user_info |-> Missing, repos |-> Missing]
    /\ up_user = user_response
    /\ up_repos = repos_response
    /\ pc = [m \in Methods |-> "pending"]
    /\ retval = [m \in StartMethods |-> None]
    /\ completed = {}
    /\ method_outputs = <<>>
    /\ join_saw = {}
    /\ crew_pc = "none"
    /\ crew_inputs = Missing
    /\ task_outputs = <<>>
    /\ gen_log = <<>>
    /\ kickoffs = 0
    /\ result = Missing
    /\ run_state = "Running"
    /\ escaped = FALSE
    /\ shown = None

Init ==
    /\ \E username \in Usernames, user_response \in FlowUserResponses,
          repos_response \in FlowRepoResponses :
          FlowInit(username, user_response, repos_response)
    /\ fx_kind = "none"
    /\ fx_resp = None
    /\ fx_results = <<>>

\* An exception that leaves flow.kickoff: main (lines 283-294) has no handler.
Raise ==
    /\ run_state' = "Failed"
    /\ escaped' = TRUE
    /\ UNCHANGED <<result, shown>>

(***************************************************************************)
(* The two start methods.                                                  *)
(***************************************************************************)
\* start_user_info up to the request of line 111 being sent.
start_user_info_request ==
    /\ run_state = "Running"
    /\ pc["start_user_info"] = "pending"
    /\ pc' = [pc EXCEPT !["start_user_info"] = "requesting"]
    /\ UNCHANGED <<state, upstreamVars, retval, completed, method_outputs,
                   join_saw, crewVars, callerVars, fetchVars>>

\* Variant: the result is stored before it is tested.
start_user_info_store_first ==
    /\ run_state = "Running"
    /\ pc["start_user_info"] = "requesting"
    /\ LET user_info == get_github_user_info(up_user) IN
       IF IsRaised(user_info)
       THEN /\ pc' = [pc EXCEPT !["start_user_info"] = "raised"]
            /\ UNCHANGED <<state, retval, callerVars>>
       ELSE IF ~Truthy(user_info)
       THEN /\ pc' = [pc EXCEPT !["start_user_info"] = "returning"]
            /\ state' = [state EXCEPT !.user_info = user_info]
            /\ retval' = [retval EXCEPT !["start_user_info"] =
                              [error |-> Str("Failed to fetch user data")]]
            /\ UNCHANGED callerVars
       ELSE /\ pc' = [pc EXCEPT !["start_user_info"] = "returning"]
            /\ state' = [state EXCEPT !.user_info = user_info]
            /\ retval' = [retval EXCEPT !["start_user_info"] = user_info]
            /\ UNCHANGED callerVars
    /\ UNCHANGED <<upstreamVars, completed, method_outputs, join_saw,
                   crewVars, fetchVars>>

\* Variant: a lookup that found nothing is tried again.
start_user_info_retry ==
    /\ run_state = "Running"
    /\ pc["start_user_info"] = "requesting"
    /\ LET user_info == get_github_user_info(up_user) IN
       IF IsRaised(user_info)
       THEN /\ pc' = [pc EXCEPT !["start_user_info"] = "raised"]
            /\ UNCHANGED <<state, retval, callerVars>>
       ELSE IF ~Truthy(user_info)
       THEN /\ pc' = [pc EXCEPT !["start_user_info"] = "pending"]
            /\ UNCHANGED <<state, retval, callerVars>>
       ELSE /\ pc' = [pc EXCEPT !["start_user_info"] = "returning"]
            /\ state' = [state EXCEPT !.user_info = user_info]
            /\ retval' = [retval EXCEPT !["start_user_info"] = user_info]
            /\ UNCHANGED callerVars
    /\ UNCHANGED <<upstreamVars, completed, method_outputs, join_saw,
                   crewVars, fetchVars>>

\* start_user_info from the answer of the request to its return statement.
start_user_info ==
    /\ run_state = "Running"
    /\ pc["start_user_info"] = "requesting"
    /\ LET user_info == get_github_user_info(up_user) IN
       IF IsRaised(user_info)
       THEN /\ pc' = [pc EXCEPT !["start_user_info"] = "raised"]
            /\ UNCHANGED <<state, retval, callerVars>>
       ELSE IF ~Truthy(user_info)
       THEN /\ pc' = [pc EXCEPT !["start_user_info"] = "returning"]
            /\ retval' = [retval EXCEPT !["start_user_info"] =
                              [error |-> Str("Failed to fetch user data")]]
            /\ UNCHANGED <<state, callerVars>>
       ELSE /\ pc' = [pc EXCEPT !["start_user_info"] = "returning"]
            /\ state' = [state EXCEPT !.user_info = user_info]
            /\ retval' = [retval EXCEPT !["start_user_info"] = user_info]
            /\ UNCHANGED callerVars
    /\ UNCHANGED <<upstreamVars, completed, method_outputs, join_saw,
                   crewVars, fetchVars>>

\* Variant: start_repo_info is begun once start_user_info has returned.
start_repo_info_request_after ==
    /\ run_state = "Running"
    /\ pc["start_user_info"] = "done"
    /\ pc["start_repo_info"] = "pending"
    /\ pc' = [pc EXCEPT !["start_repo_info"] = "requesting"]
    /\ UNCHANGED <<state, upstreamVars, retval, completed, method_outputs,
                   join_saw, crewVars, callerVars, fetchVars>>

\* start_repo_info up to the request of line 127 being sent.
start_repo_info_request ==
    /\ run_state = "Running"
    /\ pc["start_repo_info"] = "pending"
    /\ pc' = [pc EXCEPT !["start_repo_info"] = "requesting"]
    /\ UNCHANGED <<state, upstreamVars, retval, completed, method_outputs,
                   join_saw, crewVars, callerVars, fetchVars>>

\* Variant: only a lookup that returned None counts as failed.
start_repo_info_none_only ==
    /\ run_state = "Running"
    /\ pc["start_repo_info"] = "requesting"
    /\ LET repos == get_github_repos(up_repos) IN
       IF IsRaised(repos)
       THEN /\ pc' = [pc EXCEPT !["start_repo_info"] = "raised"]
            /\ UNCHANGED <<state, retval, callerVars>>
       ELSE IF repos = None
       THEN /\ pc' = [pc EXCEPT !["start_repo_info"] = "returning"]
            /\ retval' = [retval EXCEPT !["start_repo_info"] =
                              [error |-> Str("Failed to fetch repositories data")]]
            /\ UNCHANGED <<state, callerVars>>
       ELSE /\ pc' = [pc EXCEPT !["start_repo_info"] = "returning"]
            /\ state' = [state EXCEPT !.repos = Str(JoinRepos(repos.v))]
            /\ retval' = [retval EXCEPT !["start_repo_info"] = Str(JoinRepos(repos.v))]
            /\ UNCHANGED callerVars
    /\ UNCHANGED <<upstreamVars, completed, method_outputs, join_saw,
                   crewVars, fetchVars>>

\* Variant: the text is stored under the key of the profile.
start_repo_info_wrong_key ==
    /\ run_state = "Running"
    /\ pc["start_repo_info"] = "requesting"
    /\ LET repos == get_github_repos(up_repos) IN
       IF IsRaised(repos)
       THEN /\ pc' = [pc EXCEPT !["start_repo_info"] = "raised"]
            /\ UNCHANGED <<state, retval, callerVars>>
       ELSE IF ~Truthy(repos)
       THEN /\ pc' = [pc EXCEPT !["start_repo_info"] = "returning"]
            /\ retval' = [retval EXCEPT !["start_repo_info"] =
                              [error |-> Str("Failed to fetch repositories data")]]
            /\ UNCHANGED <<state, callerVars>>
       ELSE /\ pc' = [pc EXCEPT !["start_repo_info"] = "returning"]
            /\ state' = [state EXCEPT !.user_info = Str(JoinRepos(repos.v))]
            /\ retval' = [retval EXCEPT !["start_repo_info"] = Str(JoinRepos(repos.v))]
            /\ UNCHANGED callerVars
    /\ UNCHANGED <<upstreamVars, completed, method_outputs, join_saw,
                   crewVars, fetchVars>>

\* start_repo_info from the answer of the request to its return statement.
start_repo_info ==
    /\ run_state = "Running"
    /\ pc["start_repo_info"] = "requesting"
    /\ LET repos == get_github_repos(up_repos) IN
       IF IsRaised(repos)
       THEN /\ pc' = [pc EXCEPT !["start_repo_info"] = "raised"]
            /\ UNCHANGED <<state, retval, callerVars>>
       ELSE IF ~Truthy(repos)
       THEN /\ pc' = [pc EXCEPT !["start_repo_info"] = "returning"]
            /\ retval' = [retval EXCEPT !["start_repo_info"] =
                              [error |-> Str("Failed to fetch repositories data")]]
            /\ UNCHANGED <<state, callerVars>>
       ELSE /\ pc' = [pc EXCEPT !["start_repo_info"] = "returning"]
            /\ state' = [state EXCEPT !.repos = Str(JoinRepos(repos.v))]
            /\ retval' = [retval EXCEPT !["start_repo_info"] = Str(JoinRepos(repos.v))]
            /\ UNCHANGED callerVars
    /\ UNCHANGED <<upstreamVars, completed, method_outputs, join_saw,
                   crewVars, fetchVars>>

\* The flow takes the return of a start method: it records the output and
\* counts the method as completed, whatever it returned.
method_completed ==
    /\ run_state = "Running"
    /\ \E m \in StartMethods :
          /\ pc[m] = "returning"
          /\ pc' = [pc EXCEPT ![m] = "done"]
          /\ method_outputs' = Append(method_outputs, retval[m])
          /\ completed' = completed \cup {m}
    /\ UNCHANGED <<state, upstreamVars, retval, join_saw, crewVars,
                   callerVars, fetchVars>>

(***************************************************************************)
(* The join method generate_roast and the crew it runs.                    *)
(***************************************************************************)
\* Variant: the listener is also due as soon as a method returned a failure.
and_shortcircuit(methods, returned) ==
    \/ methods \subseteq returned
    \/ \E m \in methods \cap returned : "error" \in DOMAIN retval[m]

\* Variant: the listener is due as soon as one of the methods has returned.
and_any(methods, returned) == methods \cap returned # {}

\* Variant: the listener is due once every method has stored its key.
and_stored(methods, returned) ==
    /\ methods \subseteq returned
    /\ state.user_info # Missing
    /\ state.repos # Missing

\* @listen(and_(start_user_info, start_repo_info)): the listener is due once
\* every one of the methods has returned.
and_(methods, returned) == methods \subseteq returned

\* Variant: `and` in place of `or`.
StateIncomplete_and(st) ==
    /\ ~Truthy(Get(st, "user_info", None))
    /\ ~Truthy(Get(st, "repos", None))

\* Variant: only the repositories are looked for.
StateIncomplete_repos(st) == ~Truthy(Get(st, "repos", None))

\* Variant: only the profile is looked for.
StateIncomplete_user(st) == ~Truthy(Get(st, "user_info", None))

\* The test of line 160 on self.state.
StateIncomplete(st) ==
    \/ ~Truthy(Get(st, "user_info", None))
    \/ ~Truthy(Get(st, "repos", None))

\* generate_roast from its activation to `return None` or to crew.kickoff.
generate_roast ==
    /\ run_state = "Running"
    /\ pc["generate_roast"] = "pending"
    /\ and_(StartMethods, completed)
    /\ join_saw' = {key \in {"user_info", "repos"} : state[key] # Missing}
    /\ IF StateIncomplete(state)
       THEN /\ pc' = [pc EXCEPT !["generate_roast"] = "done"]
            /\ method_outputs' = Append(method_outputs, None)
            /\ completed' = completed \cup {"generate_roast"}
            /\ UNCHANGED crewVars
       ELSE /\ pc' = [pc EXCEPT !["generate_roast"] = "crew_kickoff"]
            /\ crew_pc' = "ready"
            /\ crew_inputs' = [username |-> state.username,
                               repos |-> state.repos,
                               user_info |-> state.user_info]
            /\ kickoffs' = kickoffs + 1
            /\ UNCHANGED <<method_outputs, completed, task_outputs, gen_log>>
    /\ UNCHANGED <<state, upstreamVars, retval, callerVars, fetchVars>>

\* What crew.kickoff returns: the output of the last task.
CrewOutput(outputs) == outputs[Len(outputs)]

\* Variant: the exception is caught and what there is gets returned.
GenerationError_partial ==
    /\ pc' = [pc EXCEPT !["generate_roast"] = "done"]
    /\ method_outputs' =
           Append(method_outputs,
                  Tuple(<<state.user_info,
                          IF task_outputs = <<>> THEN None
                          ELSE CrewOutput(task_outputs)>>))
    /\ completed' = completed \cup {"generate_roast"}
    /\ UNCHANGED callerVars

\* An exception of crew.kickoff leaves generate_roast (no handler at lines
\* 246-253).  The flow either lets it leave flow.kickoff or logs it and goes
\* on without an output of generate_roast; both are modelled.
GenerationError ==
    /\ UNCHANGED <<method_outputs, completed>>
    /\ \/ /\ pc' = [pc EXCEPT !["generate_roast"] = "raised"]
          /\ Raise
       \/ /\ pc' = [pc EXCEPT !["generate_roast"] = "dropped"]
          /\ UNCHANGED callerVars

\* Variant: the crew is made of the roast task alone.
CrewTasks_roast_only == <<"roast_task">>

\* Variant: the tasks in the other order.
CrewTasks_swapped == <<"roast_task", "analysis_task">>

\* The tasks of the crew, in the order of line 240.
CrewTasks == <<"analysis_task", "roast_task">>

\* The task whose turn it is: the crew runs its tasks one after the other.
NextTask(outputs) == CrewTasks[Len(outputs) + 1]

\* Texts the agent of a task can answer with.
TaskTexts(task) == IF task = "analysis_task" THEN AnalysisTexts ELSE RoastTexts

\* The crew gives the next task to its agent: one generation call.
crew_task_call ==
    /\ run_state = "Running"
    /\ crew_pc = "ready"
    /\ Len(task_outputs) < Len(CrewTasks)
    /\ crew_pc' = "running"
    /\ gen_log' = Append(gen_log, <<"call", NextTask(task_outputs)>>)
    /\ UNCHANGED <<state, upstreamVars, taskVars, crew_inputs, task_outputs,
                   kickoffs, callerVars, fetchVars>>

\* The generation call returns a text or fails; after the last task the
\* crew is finished.
crew_task_return ==
    /\ run_state = "Running"
    /\ crew_pc = "running"
    /\ LET task == NextTask(task_outputs) IN
       \/ \E text \in TaskTexts(task) :
             /\ task_outputs' = Append(task_outputs, Str(text))
             /\ gen_log' = Append(gen_log, <<"return", task>>)
             /\ crew_pc' = IF Len(task_outputs) + 1 = Len(CrewTasks)
                           THEN "finished" ELSE "ready"
             /\ UNCHANGED <<pc, method_outputs, completed, callerVars>>
       \/ /\ crew_pc' = "failed"
          /\ gen_log' = Append(gen_log, <<"error", task>>)
          /\ GenerationError
          /\ UNCHANGED task_outputs
    /\ UNCHANGED <<state, upstreamVars, retval, join_saw, crew_inputs,
                   kickoffs, fetchVars>>

\* Variant: the text of the repositories is returned in place of the profile.
generate_roast_return_repos ==
    /\ run_state = "Running"
    /\ pc["generate_roast"] = "crew_kickoff"
    /\ crew_pc = "finished"
    /\ pc' = [pc EXCEPT !["generate_roast"] = "done"]
    /\ method_outputs' =
           Append(method_outputs, Tuple(<<state.repos, CrewOutput(task_outputs)>>))
    /\ completed' = completed \cup {"generate_roast"}
    /\ UNCHANGED <<state, upstreamVars, retval, join_saw, crewVars,
                   callerVars, fetchVars>>

\* crew.kickoff returns and generate_roast returns the pair of line 255.
generate_roast_return ==
    /\ run_state = "Running"
    /\ pc["generate_roast"] = "crew_kickoff"
    /\ crew_pc = "finished"
    /\ pc' = [pc EXCEPT !["generate_roast"] = "done"]
    /\ method_outputs' =
           Append(method_outputs, Tuple(<<state.user_info, CrewOutput(task_outputs)>>))
    /\ completed' = completed \cup {"generate_roast"}
    /\ UNCHANGED <<state, upstreamVars, retval, join_saw, crewVars,
                   callerVars, fetchVars>>

(***************************************************************************)
(* main(): the call of flow.kickoff and the use of its result.             *)
(***************************************************************************)
\* flow.kickoff returns the output of the method that returned last.
FinalOutput(outputs) == outputs[Len(outputs)]

flow_kickoff_return ==
    /\ run_state = "Running"
    /\ pc["generate_roast"] \in {"done", "dropped"}
    /\ result = Missing
    /\ result' = FinalOutput(method_outputs)
    /\ UNCHANGED <<state, upstreamVars, taskVars, crewVars, run_state,
                   escaped, shown, fetchVars>>

\* The exception of a start method leaves flow.kickoff.  flow.kickoff hands
\* every start method to the event loop before one of them can end, and it
\* gives control back to main only when all of them have ended, so the
\* other start method has returned or raised by then.
flow_kickoff_raises ==
    /\ run_state = "Running"
    /\ \E m \in StartMethods : pc[m] = "raised"
    /\ \A m \in StartMethods : pc[m] \in {"done", "raised"}
    /\ Raise
    /\ UNCHANGED <<state, upstreamVars, taskVars, crewVars, fetchVars>>

\* `user_info, roast = result` works on a value of exactly two elements.
Unpackable(v) ==
    IF "k" \notin DOMAIN v THEN Cardinality(DOMAIN v) = 2
    ELSE CASE v.k \in {"tuple", "list"} -> Len(v.v) = 2
           [] v.k = "str" -> Len(v.s) = 2
           [] OTHER -> FALSE

\* Lines 290-294: main reports a falsy result, else unpacks and shows it.
main_result ==
    /\ run_state = "Running"
    /\ result # Missing
    /\ IF ~Truthy(result)
       THEN /\ run_state' = "Failed"
            /\ shown' = Str("The username provided does not exist.")
            /\ UNCHANGED escaped
       ELSE IF Unpackable(result)
       THEN /\ run_state' = "Completed"
            /\ shown' = result
            /\ UNCHANGED escaped
       ELSE /\ run_state' = "Failed"
            /\ escaped' = TRUE
            /\ UNCHANGED shown
    /\ UNCHANGED <<state, upstreamVars, taskVars, crewVars, result, fetchVars>>

Next ==
    \/ start_user_info_request
    \/ start_user_info
    \/ start_repo_info_request
    \/ start_repo_info
    \/ method_completed
    \/ generate_roast
    \/ crew_task_call
    \/ crew_task_return
    \/ generate_roast_return
    \/ flow_kickoff_return
    \/ flow_kickoff_raises
    \/ main_result

Spec == Init /\ [][Next]_vars

(***************************************************************************)
(* The fetchers on their own: one upstream state, successive calls.        *)
(***************************************************************************)
\* An optional text field of an upstream record: not sent, null, "" or set.
OptText == {Missing, None, Str(""), Str("text")}

\* A count field of an upstream record: not sent, null or set.
OptCount == {Missing, None, IntV(100)}

FetchUserBodies ==
    {UserBody(login, name, bio, followers, location, company, blog) :
        login \in {Str("octocat"), Missing}, name \in OptText, bio \in OptText,
        followers \in OptCount, location \in OptText, company \in OptText,
        blog \in OptText}

FetchRepoBodies ==
    {RepoBody(Str("Spoon-Knife"), description, language, stars,
              List(<<Str("demo")>>), Bool(FALSE)) :
        description \in OptText, language \in OptText,
        stars \in {Missing, IntV(12)}}

FetchUserResponses ==
    {RequestException}
    \cup {Response(status, ErrorBody) : status \in OtherStatuses}
    \cup {Response(HTTP_OK, body) : body \in FetchUserBodies}

FetchRepoResponses ==
    {RequestException}
    \cup {Response(status, ErrorBody) : status \in OtherStatuses}
    \cup {Response(HTTP_OK, List(body)) : body \in ListsOf(FetchRepoBodies, MaxRepos)}

FetchInit ==
    /\ FlowInit("octocat", Response(404, ErrorBody), Response(404, ErrorBody))
    /\ fx_results = <<>>
    /\ \/ fx_kind = "user" /\ fx_resp \in FetchUserResponses
       \/ fx_kind = "repos" /\ fx_resp \in FetchRepoResponses

\* One more call of get_github_user_info against the same upstream state.
call_get_github_user_info ==
    /\ fx_kind = "user"
    /\ Len(fx_results) < MaxCalls
    /\ fx_results' = Append(fx_results, get_github_user_info(fx_resp))
    /\ UNCHANGED <<flowVars, fx_kind, fx_resp>>

\* One more call of get_github_repos against the same upstream state.
call_get_github_repos ==
    /\ fx_kind = "repos"
    /\ Len(fx_results) < MaxCalls
    /\ fx_results' = Append(fx_results, get_github_repos(fx_resp))
    /\ UNCHANGED <<flowVars, fx_kind, fx_resp>>

FetchNext ==
    \/ call_get_github_user_info
    \/ call_get_github_repos

FetchSpec == FetchInit /\ [][FetchNext]_vars

(***************************************************************************)
(* Properties of a run (specification Spec).                               *)
(***************************************************************************)
\* The fetch of start method m has returned, and what it returned.
Returned(m) == pc[m] \in {"returning", "done"}

Fetched(m) ==
    IF m = "start_user_info" THEN get_github_user_info(up_user)
    ELSE get_github_repos(up_repos)

NotFoundReturned(m) == Returned(m) /\ Fetched(m) = None

\* The start method m ended without storing its key.
StartFailed(m) == Returned(m) /\ "error" \in DOMAIN retval[m]

SomeStartRaised == \E m \in StartMethods : pc[m] = "raised"

NotFoundMessage == Str("The username provided does not exist.")

\* The run ended in the one failure main reports: flow.kickoff gave None.
SingleFailure ==
    /\ run_state = "Failed"
    /\ ~escaped
    /\ result = None
    /\ shown = NotFoundMessage

GenerationFailed == \E i \in DOMAIN gen_log : gen_log[i][1] = "error"

\* C1: when a fetch branch returned not-found, whatever the other branch
\* returned and in whatever order, the generation capability is never
\* called, nothing but None reaches the caller, and the run, once both
\* branches have returned, ends in the single failure main reports.
C1_NotFoundFailsRun ==
    (\E m \in StartMethods : NotFoundReturned(m)) =>
        /\ gen_log = <<>>
        /\ kickoffs = 0
        /\ result \in {Missing, None}
        /\ shown \in {None, NotFoundMessage}
        /\ run_state # "Completed"
        /\ (run_state = "Failed" /\ ~SomeStartRaised) => SingleFailure

\* A run that failed on a profile not found although the repositories
\* were fetched and stored.
C1_Witness ==
    /\ SingleFailure
    /\ NotFoundReturned("start_user_info")
    /\ state.repos # Missing
    /\ pc["start_repo_info"] = "done"

\* C2: in a successful run the generation capability was called exactly
\* twice, for the analysis and then for the roast, the second call after
\* the first returned, and crew.kickoff was called exactly once; at no
\* time is a call made while another is out.
C2_TwoCallsInOrder ==
    /\ kickoffs <= 1
    /\ \A i \in DOMAIN gen_log :
          gen_log[i][1] = "call" =>
             /\ i = 1 \/ gen_log[i - 1][1] = "return"
             /\ gen_log[i][2] = "roast_task" =>
                   i > 1 /\ gen_log[i - 1] = <<"return", "analysis_task">>
    /\ run_state = "Completed" =>
          /\ kickoffs = 1
          /\ gen_log = << <<"call", "analysis_task">>, <<"return", "analysis_task">>,
                          <<"call", "roast_task">>, <<"return", "roast_task">> >>

C2_Witness ==
    /\ run_state = "Completed"
    /\ Len(gen_log) = 4
    /\ kickoffs = 1

\* C3 as stated: whenever generate_roast has read self.state, both keys
\* were there.
C3_Original ==
    pc["generate_roast"] # "pending" => join_saw = {"user_info", "repos"}

\* C3: generate_roast reads self.state only after both start methods have
\* returned, so after every write that is made; it goes past its test only
\* when it saw both keys, and it sees one key alone exactly when the other
\* start method failed.
C3_JoinReadsAfterStarts ==
    pc["generate_roast"] # "pending" =>
        /\ \A m \in StartMethods : pc[m] = "done"
        /\ join_saw = {key \in {"user_info", "repos"} : state[key] # Missing}
        /\ ("user_info" \in join_saw) <=> ~StartFailed("start_user_info")
        /\ ("repos" \in join_saw) <=> ~StartFailed("start_repo_info")
        /\ kickoffs > 0 => join_saw = {"user_info", "repos"}

\* generate_roast ran with the profile stored and the repositories missing.
C3_Witness ==
    /\ pc["generate_roast"] = "done"
    /\ join_saw = {"user_info"}
    /\ kickoffs = 0

\* C4 as stated: when a start method failed, generate_roast is not run.
C4_Original ==
    (\E m \in StartMethods : StartFailed(m)) => pc["generate_roast"] = "pending"

\* C4: when a start method failed, generate_roast is still activated once
\* both have returned, but it returns None at its test: no crew is made, no
\* generation call happens, and the run ends in the single failure.
C4_FailedStartStopsJoin ==
    (\E m \in StartMethods : StartFailed(m)) =>
        /\ pc["generate_roast"] \in {"pending", "done"}
        /\ crew_pc = "none"
        /\ crew_inputs = Missing
        /\ kickoffs = 0
        /\ gen_log = <<>>
        /\ pc["generate_roast"] = "done" =>
              method_outputs[Len(method_outputs)] = None
        /\ (run_state = "Failed" /\ ~SomeStartRaised) => SingleFailure

\* The repositories could not be fetched, generate_roast ran and returned.
C4_Witness ==
    /\ StartFailed("start_repo_info")
    /\ ~StartFailed("start_user_info")
    /\ pc["generate_roast"] = "done"
    /\ run_state = "Failed"

\* C5: a run that ended gave the caller the pair or one failure value, and
\* no exception left it.
C5_Original ==
    run_state # "Running" =>
        /\ ~escaped
        /\ \/ run_state = "Completed" /\ result.k = "tuple"
           \/ SingleFailure

\* C6: when a generation call failed, the run does not complete, and
\* neither the value flow.kickoff returns nor what main shows holds an
\* artifact or the analysis text; the run ends failed.
C6_GenerationFailureFailsRun ==
    GenerationFailed =>
        /\ run_state # "Completed"
        /\ pc["generate_roast"] \in {"raised", "dropped"}
        /\ shown = None
        /\ result \in {Missing, state.user_info, state.repos}
        /\ \A i \in DOMAIN task_outputs :
              /\ result # task_outputs[i]
              /\ \A j \in DOMAIN method_outputs : method_outputs[j] # task_outputs[i]
        /\ \A j \in DOMAIN method_outputs : method_outputs[j] \in {state.user_info, state.repos}

\* The analysis returned, the roast call failed, the run ended failed.
C6_Witness ==
    /\ run_state = "Failed"
    /\ gen_log = << <<"call", "analysis_task">>, <<"return", "analysis_task">>,
                    <<"call", "roast_task">>, <<"error", "roast_task">> >>
    /\ Len(task_outputs) = 1

\* Each step of a run is taken in time: the lookups have a 10 s timeout
\* and the generation calls are bounded.
FairSpec == Spec /\ WF_vars(Next)

\* C8: every run ends, completed or failed.
C8_RunTerminates == <>(run_state \in {"Completed", "Failed"})

\* A run that ended by an exception of a lookup.
C8_Witness ==
    /\ run_state = "Failed"
    /\ SomeStartRaised

(***************************************************************************)
(* Properties of the fetchers (specification FetchSpec).                   *)
(***************************************************************************)
UserInfoKeys ==
    {"username", "name", "bio", "followers", "following", "public_repos",
     "location", "company", "blog", "created_at", "avatar_url"}

RepoKeys ==
    {"name", "description", "language", "stars", "forks", "issues",
     "created_at", "updated_at", "topics", "is_fork"}

\* The fetcher under test got a response with status 200.
Answered == ~IsRaised(fx_resp) /\ fx_resp.status_code = 200

\* A field of a normalized record holds something.
NonEmpty(v) == v # None /\ v # Missing /\ v # Str("")

\* The upstream field is missing, null or empty.
NotSent(data, key) == Get(data, key, None) \in {None, Str("")}

\* A sentinel field: the upstream value, or the sentinel when not sent.
Defaulted(out, field, data, key, sentinel) ==
    /\ out[field] = IF NotSent(data, key) THEN Str(sentinel) ELSE data[key]
    /\ NonEmpty(out[field])

\* A count field: the upstream value, or 0 for a key that is not there.
Counted(out, field, data, key) ==
    out[field] = IF data[key] = Missing THEN IntV(0) ELSE data[key]

\* The upstream record sends its fields without a default, and no null count.
OnlyOptionalMissing(data) ==
    /\ \A key \in {"login", "created_at", "avatar_url"} \cap DOMAIN data :
          data[key] \notin {Missing, None}
    /\ \A key \in {"followers", "following", "public_repos", "stargazers_count",
                   "forks_count", "open_issues_count"} \cap DOMAIN data :
          data[key] # None

\* C7 as stated: every field is there and non-empty, and every optional
\* profile field that was not sent is "Not provided".
C7_Original ==
    (fx_kind = "user" /\ Answered /\ OnlyOptionalMissing(fx_resp.json)) =>
        \A i \in DOMAIN fx_results :
            LET out == fx_results[i]
                data == fx_resp.json
            IN /\ DOMAIN out = UserInfoKeys
               /\ \A field \in UserInfoKeys : NonEmpty(out[field])
               /\ \A field \in {"name", "bio", "location", "company", "blog"} :
                     NotSent(data, field) => out[field] = Str("Not provided")

\* C7: for any upstream record every key of the normalized record is
\* there; an optional text field that is missing, null or empty maps to its
\* sentinel ("Not provided" for name, location, company and blog, "No bio
\* provided" for bio, "No description provided", "Not specified") and is
\* never empty; a count that is not there maps to 0; and when the other
\* fields are sent, every field of the normalized record is non-empty.
C7_FieldDefaulting ==
    Answered =>
        \A i \in DOMAIN fx_results :
            LET out == fx_results[i]
                data == fx_resp.json
            IN IF fx_kind = "user"
               THEN /\ DOMAIN out = UserInfoKeys
                    /\ Defaulted(out, "name", data, "name", "Not provided")
                    /\ Defaulted(out, "bio", data, "bio", "No bio provided")
                    /\ Defaulted(out, "location", data, "location", "Not provided")
                    /\ Defaulted(out, "company", data, "company", "Not provided")
                    /\ Defaulted(out, "blog", data, "blog", "Not provided")
                    /\ Counted(out, "followers", data, "followers")
                    /\ Counted(out, "following", data, "following")
                    /\ Counted(out, "public_repos", data, "public_repos")
                    /\ OnlyOptionalMissing(data) =>
                          \A field \in UserInfoKeys : NonEmpty(out[field])
               ELSE /\ out.k = "list"
                    /\ Len(out.v) = Len(data.v)
                    /\ \A n \in DOMAIN out.v :
                          /\ DOMAIN out.v[n] = RepoKeys
                          /\ Defaulted(out.v[n], "description", data.v[n],
                                       "description", "No description provided")
                          /\ Defaulted(out.v[n], "language", data.v[n],
                                       "language", "Not specified")
                          /\ Counted(out.v[n], "stars", data.v[n], "stargazers_count")
                          /\ Counted(out.v[n], "forks", data.v[n], "forks_count")
                          /\ Counted(out.v[n], "issues", data.v[n], "open_issues_count")
                          /\ OnlyOptionalMissing(data.v[n]) =>
                                \A field \in RepoKeys : NonEmpty(out.v[n][field])

\* A profile with an empty bio and no name was normalized.
C7_Witness ==
    /\ fx_kind = "user"
    /\ Answered
    /\ fx_resp.json.bio = Str("")
    /\ fx_resp.json.name = Missing
    /\ fx_results # <<>>
    /\ fx_results[1].bio = Str("No bio provided")
    /\ fx_results[1].name = Str("Not provided")

\* C9 as stated: not-found exactly for the statuses outside 200..299.
C9_Original ==
    ~IsRaised(fx_resp) =>
        \A i \in DOMAIN fx_results :
            fx_results[i] = None <=> fx_resp.status_code \notin 200..299

\* C9: a fetcher returns not-found (None) exactly when the status is not
\* 200, and a normalized record (a list of them) for status 200.
C9_NotFoundUnless200 ==
    ~IsRaised(fx_resp) =>
        \A i \in DOMAIN fx_results :
            /\ fx_results[i] = None <=> fx_resp.status_code # 200
            /\ fx_resp.status_code = 200 =>
                  IF fx_kind = "user" THEN DOMAIN fx_results[i] = UserInfoKeys
                  ELSE /\ fx_results[i].k = "list"
                       /\ Len(fx_results[i].v) = Len(fx_resp.json.v)

\* Status 204 was answered with not-found.
C9_Witness ==
    /\ ~IsRaised(fx_resp)
    /\ fx_resp.status_code = 204
    /\ fx_results # <<>>
    /\ fx_results[1] = None

Settled(m) == pc[m] \in {"done", "raised"}

\* C11: generate_roast is activated only after both start methods have
\* returned, whether with data or with a failure, and the outcome of the
\* run is decided only after both start methods have ended: a start method
\* that fails first does not keep the other from running to its end.
C11_JoinAfterBothSettled ==
    /\ pc["generate_roast"] # "pending" => \A m \in StartMethods : pc[m] = "done"
    /\ run_state # "Running" => \A m \in StartMethods : Settled(m)
    /\ result # Missing => \A m \in StartMethods : Settled(m)

\* The profile lookup failed first, the repositories were still fetched and
\* stored, and only then generate_roast ran.
C11_Witness ==
    /\ pc["generate_roast"] = "done"
    /\ Len(method_outputs) = 3
    /\ "error" \in DOMAIN method_outputs[1]
    /\ method_outputs[1] = retval["start_user_info"]
    /\ method_outputs[2] = state.repos

\* The start method m has begun, has ended its body.
Begun(m) == pc[m] # "pending"

Ended(m) == pc[m] \in {"returning", "done", "raised"}

Phase ==
    IF \/ run_state = "Failed"
       \/ crew_pc = "failed"
       \/ pc["generate_roast"] = "done" /\ kickoffs = 0
    THEN "Failed"
    ELSE IF crew_pc = "none"
    THEN IF \A m \in StartMethods : pc[m] = "pending"
         THEN "Started" ELSE "FetchingBothBranches"
    ELSE IF gen_log = <<>> THEN "Joined"
    ELSE CASE gen_log[Len(gen_log)] = <<"call", "analysis_task">> -> "AnalysisRunning"
           [] gen_log[Len(gen_log)] = <<"return", "analysis_task">> -> "AnalysisDone"
           [] gen_log[Len(gen_log)] = <<"call", "roast_task">> -> "GenerationRunning"
           [] gen_log[Len(gen_log)] = <<"return", "roast_task">> -> "Completed"
           [] OTHER -> "Failed"

PhaseSteps ==
    {<<"Started", "FetchingBothBranches">>,
     <<"FetchingBothBranches", "Failed">>,
     <<"FetchingBothBranches", "Joined">>,
     <<"Joined", "AnalysisRunning">>,
     <<"AnalysisRunning", "Failed">>,
     <<"AnalysisRunning", "AnalysisDone">>,
     <<"AnalysisDone", "GenerationRunning">>,
     <<"GenerationRunning", "Failed">>,
     <<"GenerationRunning", "Completed">>}

\* C13: a run goes through Started, FetchingBothBranches, Joined,
\* AnalysisRunning, AnalysisDone, GenerationRunning and Completed in this
\* order, leaving it only for Failed from FetchingBothBranches,
\* AnalysisRunning or GenerationRunning; Failed and Completed are never
\* left, and once the run is Failed no generation call and no crew.kickoff
\* is made.
C13_StateMachine ==
    [][/\ Phase' # Phase => <<Phase, Phase'>> \in PhaseSteps
       /\ Phase = "Completed" => Phase' = "Completed"
       /\ Phase = "Failed" =>
             /\ Phase' = "Failed"
             /\ gen_log' = gen_log
             /\ kickoffs' = kickoffs
             /\ crew_pc' = crew_pc
       /\ run_state' = "Completed" => Phase' = "Completed"
       /\ run_state' = "Failed" => Phase' = "Failed"]_vars

\* The run failed out of AnalysisRunning and main got the failure.
C13_Witness ==
    /\ Phase = "Failed"
    /\ run_state = "Failed"
    /\ gen_log = << <<"call", "analysis_task">>, <<"error", "analysis_task">> >>

\* C14: once activated, generate_roast looks for both outputs in
\* self.state before anything else; when one is absent it returns None,
\* without an exception and without a crew, a task or a generation call,
\* and the run ends in the failure main reports; when both are there it goes
\* on to crew.kickoff.
C14_JoinRechecks ==
    pc["generate_roast"] # "pending" =>
        IF join_saw = {"user_info", "repos"}
        THEN kickoffs = 1 /\ crew_inputs # Missing
        ELSE /\ pc["generate_roast"] = "done"
             /\ FinalOutput(method_outputs) = None
             /\ kickoffs = 0
             /\ crew_pc = "none"
             /\ crew_inputs = Missing
             /\ task_outputs = <<>>
             /\ gen_log = <<>>
             /\ ~escaped
             /\ run_state \in {"Running", "Failed"}
             /\ run_state = "Failed" => SingleFailure

\* generate_roast found the repositories but no profile, and the run ended
\* in the reported failure.
C14_Witness ==
    /\ pc["generate_roast"] = "done"
    /\ join_saw = {"repos"}
    /\ SingleFailure

\* The step is the body of start method m, from the answer to the return.
BodyOf(m) == pc[m] = "requesting" /\ pc'[m] = "returning"

\* C15: the key user_info of self.state is written only by
\* start_user_info and the key repos only by start_repo_info, each at most
\* once (the key was absent before); no step adds or removes a key or
\* changes username, and from the activation of generate_roast on, through
\* the crew's tasks, self.state is not written at all.
C15_SingleWriterPerKey ==
    [][/\ state'.user_info # state.user_info =>
             /\ BodyOf("start_user_info")
             /\ state.user_info = Missing
             /\ state'.repos = state.repos
       /\ state'.repos # state.repos =>
             /\ BodyOf("start_repo_info")
             /\ state.repos = Missing
             /\ state'.user_info = state.user_info
       /\ state'.username = state.username
       /\ DOMAIN state' = DOMAIN state
       /\ (pc["generate_roast"] # "pending" \/ crew_pc # "none") => state' = state]_vars

\* Both keys were written and the crew has run both tasks.
C15_Witness ==
    /\ state.user_info = retval["start_user_info"]
    /\ state.repos = retval["start_repo_info"]
    /\ crew_pc = "finished"
    /\ pc["generate_roast"] = "crew_kickoff"

\* Number of generation calls made for a task.
CallsOf(log, task) ==
    Cardinality({i \in DOMAIN log : log[i] = <<"call", task>>})

\* C16: nothing is retried.  A lookup once sent is not sent again, whatever
\* its answer, and by the end of the run each of the two lookups was sent;
\* each task of the crew is given to the generation capability at most
\* once, crew.kickoff is called at most once, and no call follows a failed
\* generation call.
C16_NoRetry ==
    [][/\ \A m \in StartMethods :
             /\ Begun(m) => pc'[m] # "pending"
             /\ Ended(m) => pc'[m] # "requesting"
       /\ run_state' # "Running" => \A m \in StartMethods : pc'[m] \in {"done", "raised"}
       /\ \A task \in {"analysis_task", "roast_task"} : CallsOf(gen_log', task) <= 1
       /\ kickoffs' <= 1
       /\ GenerationFailed => gen_log' = gen_log]_vars

\* Both lookups found nothing; each was sent once and the run ended.
C16_Witness ==
    /\ run_state = "Failed"
    /\ StartFailed("start_user_info")
    /\ StartFailed("start_repo_info")
    /\ Fetched("start_repo_info") = None

\* The lookup of the repositories was answered with an empty list.
EmptyListReturned ==
    Returned("start_repo_info") /\ Fetched("start_repo_info") = List(<<>>)

\* C17: an empty list of repositories is handled as a failed lookup:
\* start_repo_info returns its error result without writing the key repos,
\* the generation capability is never called, and the run ends in the same
\* failure main reports for a subject that was not found.
C17_EmptyListFails ==
    EmptyListReturned =>
        /\ retval["start_repo_info"] = [error |-> Str("Failed to fetch repositories data")]
        /\ state.repos = Missing
        /\ kickoffs = 0
        /\ gen_log = <<>>
        /\ run_state # "Completed"
        /\ pc["generate_roast"] = "done" => FinalOutput(method_outputs) = None
        /\ (run_state = "Failed" /\ ~SomeStartRaised) => SingleFailure

\* The profile was found, the list of repositories was empty, and the run
\* ended in the reported failure.
C17_Witness ==
    /\ EmptyListReturned
    /\ state.user_info # Missing
    /\ SingleFailure

\* The key of self.state that start method m produces.
KeyOf(m) == IF m = "start_user_info" THEN "user_info" ELSE "repos"

\* The start method m ended with data: its lookup gave a profile, or a
\* list with at least one repository.
Succeeded(m) ==
    /\ Returned(m)
    /\ ~IsRaised(Fetched(m))
    /\ Truthy(Fetched(m))

\* C18: a start method that fails leaves self.state as it was: a key is in
\* self.state exactly when its producer has ended with data, and it then
\* holds what the producer returned; after a lookup that found nothing, an
\* empty list or an exception the key stays absent.
C18_KeyIffProducerSucceeded ==
    \A m \in StartMethods :
        /\ state[KeyOf(m)] # Missing <=> Succeeded(m)
        /\ Succeeded(m) => state[KeyOf(m)] = retval[m]
        /\ (Ended(m) /\ ~Succeeded(m)) => state[KeyOf(m)] = Missing

\* After a run whose repositories lookup found nothing, the profile is in
\* self.state and the repositories are not.
C18_Witness ==
    /\ run_state = "Failed"
    /\ Fetched("start_repo_info") = None
    /\ state.user_info # Missing
    /\ state.repos = Missing
    /\ pc["start_repo_info"] = "done"

\* C19: in a completed run the profile main receives is the record
\* start_user_info got from its lookup and wrote to self.state, the same
\* record the crew was given and that self.state still holds, next to the
\* output of the last task; and no step of a run changes username.
C19_ProfileReturnedUnchanged ==
    [][/\ state'.username = state.username
       /\ run_state' = "Completed" =>
             /\ result'.k = "tuple"
             /\ Len(result'.v) = 2
             /\ result'.v[1] = get_github_user_info(up_user')
             /\ result'.v[1] = retval'["start_user_info"]
             /\ result'.v[1] = state'.user_info
             /\ result'.v[1] = crew_inputs'.user_info
             /\ result'.v[2] = CrewOutput(task_outputs')
             /\ shown' = result'
             /\ crew_inputs'.username = state'.username]_vars

\* A completed run whose profile came without a name.
C19_Witness ==
    /\ run_state = "Completed"
    /\ shown.v[1] = state.user_info
    /\ shown.v[1].name = Str("Not provided")

====
